---- MODULE Spec2Model ----
(***************************************************************************)
(* Model of saucebot/cogs/sauce.py: the `sauce` command pipeline (image    *)
(* resolution, member rate limit, cache-first SauceNao lookup, preview,    *)
(* reply), written as a state machine whose actions are the segments of    *)
(* the coroutine between two suspension points.                            *)
(***************************************************************************)
EXTENDS Integers, Sequences, FiniteSets, TLC

VARIABLES
    inv,            \* the invocations of the sauce command (one record per ctx)
    queries,        \* SauceQueries: the append-only query log
    cache,          \* SauceCache: url -> cache entry
    servers,        \* Servers: the guild's registered API key (optional)
    member_limit,   \* config SauceNao.member_api_limit
    tracemoe,       \* self.tracemoe is configured
    tokens,         \* calls left in the guild's cooldown window of the sauce command
    reg,            \* the apikey command in progress
    purge           \* position of the purge_cache task

vars == <<inv, queries, cache, servers, member_limit, tracemoe, tokens, reg, purge>>

----------------------------------------------------------------------------
(* Bounds *)

MaxAtt    == 3      \* longest ordinary attachment list of a message
BigAtt    == 11     \* an attachment list longer than the keycap range
MaxLimit  == 2      \* largest configured member_api_limit
MaxPre    == 2      \* most query-log entries already stored at start
MaxNewer  == 1      \* most messages posted after the command message

(* Program constants *)

MaxKeycap    == 10  \* min(len(items), 10)
HistoryLimit == 50  \* ctx.channel.history(limit=50)

----------------------------------------------------------------------------
(* Optional values: None is the empty sequence, Some(x) a singleton.       *)

None == <<>>
Some(x) == <<x>>

Min(a, b) == IF a <= b THEN a ELSE b

Take(s, n) == SubSeq(s, 1, Min(n, Len(s)))

Contains(s, e) == \E k \in 1..Len(s) : s[k] = e

\* position of the first occurrence of e in s, 0 when absent
IndexOf(s, e) ==
    IF Contains(s, e) THEN CHOOSE k \in 1..Len(s) : s[k] = e /\ \A j \in 1..(k - 1) : s[j] /= e
    ELSE 0

----------------------------------------------------------------------------
(* URLs, attachments, messages *)

Url(scheme, host, src, idx, ext, fmt) ==
    [scheme |-> scheme, host |-> host, src |-> src, idx |-> idx, ext |-> ext, fmt |-> fmt]

GoodUrl == Url("https", "x", "arg", 0, "png", "")
BadUrl  == Url("", "", "arg", 0, "", "")
Args    == {None, Some(GoodUrl), Some(BadUrl)}

\* discord.Attachment: url on the CDN, proxy_url on the media proxy
Attachment(src, idx, ext) ==
    [url |-> Url("https", "cdn", src, idx, ext, ""),
     proxy_url |-> Url("https", "media", src, idx, ext, "")]

ImageExts == {"jpg", "png", "gif", "jpeg", "webp"}
VideoExts == {"mp4", "webm", "mov"}
LinkExts  == {"jpg", "png", "jpeg", "webp"}

ExtCycle == <<"jpg", "mp4", "txt">>

\* the attachment list of n files of message src, extensions cycling from shift
AttList(src, n, shift) ==
    [k \in 1..n |-> Attachment(src, k, ExtCycle[((k - 1 + shift) % 3) + 1])]

\* n image files
AllImages(src, n) == [k \in 1..n |-> Attachment(src, k, "png")]

AttLists(src) ==
    {AttList(src, n, s) : n \in 0..MaxAtt, s \in 0..2}
        \cup {AllImages(src, MaxAtt), AllImages(src, BigAtt)}

Message(atts, content) == [attachments |-> atts, content |-> content]

EmptyMsg == Message(<<>>, None)

\* ctx.message.reference: absent, resolved to something that is not a
\* discord.Message (deleted), or resolved to a message
NoRef      == [kind |-> "none", msg |-> EmptyMsg]
DeletedRef == [kind |-> "deleted", msg |-> EmptyMsg]
MsgRef(m)  == [kind |-> "message", msg |-> m]

Users == {1, 2}
Guild == "g"

----------------------------------------------------------------------------
(* Helpers of the cog *)

\* str(attachment.url).endswith(exts)
endswith(url, exts) == url.fmt = "" /\ url.ext \in exts

\* Sauce._get_attachment_image: the image URL of an attachment, None when
\* the attachment is neither an image nor a video
_get_attachment_image(attachment) ==
    IF endswith(attachment.url, ImageExts) THEN Some(attachment.url)
    ELSE IF endswith(attachment.url, VideoExts)
         THEN Some([attachment.proxy_url EXCEPT !.fmt = "?format=jpeg"])
         ELSE None

IsImageAttachment(attachment) == _get_attachment_image(attachment) /= None

\* Sauce._get_image_attachments
_get_image_attachments(message) == SelectSeq(message.attachments, IsImageAttachment)

\* IMAGE_URL_RE.match(message.content)
IMAGE_URL_RE(content) ==
    /\ content /= None
    /\ content[1].scheme \in {"http", "https"}
    /\ content[1].fmt = ""
    /\ content[1].ext \in LinkExts

\* saucebot.helpers.validate_url
validate_url(url) == url.scheme \in {"http", "https"}

\* saucebot.helpers.keycap_emoji / keycap_to_int
keycap_emoji(index) == [keycap |-> index]
keycap_to_int(reaction) == reaction.keycap

\* items[j] with Python's 0-based index
PyIndex(items, j) == items[j + 1]

\* index_range = range(1, min(len(items), 10) + 1)
index_range_nomin(items) == 1..Len(items)
index_range(items) == 1..Min(Len(items), MaxKeycap)

----------------------------------------------------------------------------
(* Persistent store (saucebot.models.database) *)

QueryEntry(user, url) == [user |-> user, guild |-> Guild, url |-> url]

\* SauceQueries.log(ctx, url)
SauceQueries_log(log, user, url) == Append(log, QueryEntry(user, url))

\* SauceQueries.user_count(ctx.author)
SauceQueries_user_count(log, user) ==
    Cardinality({k \in 1..Len(log) : log[k].user = user})

\* pysaucenao result containers
Result(class, n) == [class |-> class, header |-> [index_id |-> n], data |-> [title |-> n]]

GenericR == Result("GenericSource", 5)
AnimeR   == Result("AnimeSource", 21)
StaleR   == Result("GenericSource", 37)

CacheEntry(sauce) ==
    [result_class |-> sauce.class, header |-> sauce.header, result |-> sauce.data]

\* every entry rebuilt as the base container
Reconstruct_generic(entry) ==
    [class |-> "GenericSource", header |-> entry.header, data |-> entry.result]

\* container = getattr(pysaucenao.containers, cache.result_class);
\* container(cache.header, cache.result)
Reconstruct(entry) ==
    [class |-> entry.result_class, header |-> entry.header, data |-> entry.result]

EmptyCache == [u \in {} |-> CacheEntry(StaleR)]

\* SauceCache.fetch(url)
SauceCache_fetch(c, url) == IF url \in DOMAIN c THEN Some(c[url]) ELSE None

\* SauceCache.add_or_update(url, sauce)
SauceCache_add_or_update(c, url, sauce) ==
    [u \in DOMAIN c \cup {url} |-> IF u = url THEN CacheEntry(sauce) ELSE c[u]]

\* Servers.lookup_guild(ctx.guild)
Servers_lookup_guild(s) == s

\* the length the pattern of line 36 asks for
KeyLen == 40

\* an API key string: a body of `length` characters, all alphanumeric or
\* not, followed or not by one newline
ApiKey(id, length, alnum, newline) ==
    [id |-> id, length |-> length, alnum |-> alnum, newline |-> newline]

DefaultKey == ApiKey("shared", KeyLen, TRUE, FALSE)
GuildKey   == ApiKey("enhanced", KeyLen, TRUE, FALSE)

\* Servers.register: the guild's key, replacing any other
Servers_register(s, api_key) == Some(api_key)

\* the apikey command: not invoked
NoReg == [pc |-> "idle", api_key |-> None, test |-> None, outcome |-> "",
          stored0 |-> None]

----------------------------------------------------------------------------
(* Invocation records *)

Idle ==
    [pc |-> "idle", author |-> 0, arg |-> None, message |-> EmptyMsg,
     reference |-> NoRef, image_in_command |-> FALSE, url |-> None,
     caller |-> "", items |-> <<>>, prompt |-> "none", reactions |-> <<>>,
     attachment |-> None, hist |-> <<>>, channel |-> <<>>, sauce |-> None,
     results |-> None,
     preview |-> FALSE, outcome |-> "", trace |-> <<>>, count0 |-> 0,
     checked |-> -1, logged |-> 0, cache0 |-> None, deleted |-> FALSE,
     api_key |-> None, picked |-> 0, preview_file |-> None, nsfw |-> FALSE,
     channel_nsfw |-> FALSE, exc |-> "", xref |-> None, tm_id |-> None,
     fetched |-> FALSE, failed |-> "", cooldown |-> FALSE,
     key_at_trip |-> None, runs |-> 0]

Done(r, outcome) == [r EXCEPT !.pc = "done", !.outcome = outcome]

Log(r, events) == [r EXCEPT !.trace = r.trace \o events]

\* the world an invocation acts on: its own record and the store
World(r) == [r |-> r, queries |-> queries, cache |-> cache]

----------------------------------------------------------------------------
(* The sauce command, lines 49-217, as operators from world to world.      *)
(* Each stops at the next suspension point (r.pc) or at a return.          *)

\* lines 187-217: the "not found" reply, or the embed reply and the
\* deletion of a command message that does not carry the image
Reply(w, preview) ==
    LET r == w.r IN
    IF r.sauce = None
    THEN [w EXCEPT !.r = Done(Log(r, <<"reply_not_found">>), "not_found")]
    ELSE [w EXCEPT !.r =
            Done([Log(r, <<"reply_sauce">>) EXCEPT
                     !.preview = preview,
                     !.deleted = (~r.image_in_command /\ r.reference.kind = "none")],
                 "replied")]

\* line 176: an AnimeSource result awaits _video_preview
AfterLookup(w) ==
    IF w.r.sauce /= None /\ w.r.sauce[1].class = "AnimeSource"
    THEN [w EXCEPT !.r = [Log(w.r, <<"video_preview">>) EXCEPT !.pc = "preview"]]
    ELSE Reply(w, FALSE)

\* the member limit never applied
_check_member_limited_off(limit, count) == FALSE

\* the comparison with > in place of >=
_check_member_limited_gt(limit, count) ==
    IF limit = 0 THEN FALSE ELSE count > limit

\* Sauce._check_member_limited
_check_member_limited(limit, count) ==
    IF limit = 0 THEN FALSE ELSE count >= limit

\* variants of _get_sauce: the cache entry ignored; the cache read before
\* the query is logged; the query logged on a miss only
_get_sauce_nocache(w, url) ==
    LET r     == w.r
        q2    == SauceQueries_log(w.queries, r.author, url)
        entry == SauceCache_fetch(w.cache, url)
        r1    == [Log(r, <<"lookup_guild", "log", "cache_read", "search">>) EXCEPT
                     !.logged = Len(q2), !.cache0 = entry, !.pc = "search"]
    IN  [w EXCEPT !.queries = q2, !.r = r1]

_get_sauce_readfirst(w, url) ==
    LET r     == w.r
        q2    == SauceQueries_log(w.queries, r.author, url)
        entry == SauceCache_fetch(w.cache, url)
        r1    == [Log(r, <<"lookup_guild", "cache_read", "log">>) EXCEPT
                     !.logged = Len(q2), !.cache0 = entry]
    IN  IF entry /= None
        THEN AfterLookup([w EXCEPT !.queries = q2,
                                   !.r = [r1 EXCEPT !.sauce = Some(Reconstruct(entry[1]))]])
        ELSE [w EXCEPT !.queries = q2,
                       !.r = [Log(r1, <<"search">>) EXCEPT !.pc = "search"]]

_get_sauce_logmiss(w, url) ==
    LET r     == w.r
        q2    == SauceQueries_log(w.queries, r.author, url)
        entry == SauceCache_fetch(w.cache, url)
    IN  IF entry /= None
        THEN AfterLookup([w EXCEPT !.r =
                 [Log(r, <<"lookup_guild", "cache_read">>) EXCEPT
                     !.cache0 = entry, !.sauce = Some(Reconstruct(entry[1]))]])
        ELSE [w EXCEPT !.queries = q2,
                       !.r = [Log(r, <<"lookup_guild", "log", "cache_read", "search">>) EXCEPT
                                 !.logged = Len(q2), !.cache0 = entry, !.pc = "search"]]

\* Sauce._get_sauce, lines 312-331: key, query log, cache read, and on a
\* miss the remote search that the coroutine then awaits
_get_sauce(w, url) ==
    LET r       == w.r
        key     == Servers_lookup_guild(servers)
        api_key == IF key = None THEN DefaultKey ELSE key[1]
        q2      == SauceQueries_log(w.queries, r.author, url)
        entry   == SauceCache_fetch(w.cache, url)
        r1      == [Log(r, <<"lookup_guild", "log", "cache_read">>) EXCEPT
                       !.api_key = Some(api_key), !.logged = Len(q2), !.cache0 = entry]
    IN  IF entry /= None
        THEN AfterLookup([w EXCEPT !.queries = q2,
                                   !.r = [r1 EXCEPT !.sauce = Some(Reconstruct(entry[1]))]])
        ELSE [w EXCEPT !.queries = q2,
                       !.r = [Log(r1, <<"search">>) EXCEPT !.pc = "search"]]

\* variant of lines 92-130 that logs the query before the member check
Resolved_logfirst(w, u) ==
    LET r == [w.r EXCEPT !.url = u] IN
    IF u = None
    THEN [w EXCEPT !.r = Done(Log(r, <<"reply_no_images">>), "no_images")]
    ELSE IF ~validate_url(u[1])
    THEN [w EXCEPT !.r = Done(Log(r, <<"reply_bad_url">>), "bad_url")]
    ELSE LET count == SauceQueries_user_count(w.queries, r.author)
             q2    == SauceQueries_log(w.queries, r.author, u[1])
             rc    == [Log(r, <<"member_check">>) EXCEPT !.checked = count]
         IN  IF _check_member_limited(member_limit, count)
             THEN [w EXCEPT !.queries = q2,
                            !.r = Done([Log(rc, <<"log", "reply_member_limit">>) EXCEPT
                                           !.logged = Len(q2)],
                                       "member_limited")]
             ELSE _get_sauce([w EXCEPT !.r = rc], u[1])

\* lines 92-130: no URL, invalid URL, member limit, lookup
Resolved(w, u) ==
    LET r == [w.r EXCEPT !.url = u] IN
    IF u = None
    THEN [w EXCEPT !.r = Done(Log(r, <<"reply_no_images">>), "no_images")]
    ELSE IF ~validate_url(u[1])
    THEN [w EXCEPT !.r = Done(Log(r, <<"reply_bad_url">>), "bad_url")]
    ELSE LET count == SauceQueries_user_count(w.queries, r.author)
             rc    == [Log(r, <<"member_check">>) EXCEPT !.checked = count]
         IN  IF _check_member_limited(member_limit, count)
             THEN [w EXCEPT !.r = Done(Log(rc, <<"reply_member_limit">>), "member_limited")]
             ELSE _get_sauce([w EXCEPT !.r = rc], u[1])

\* the history scanned whether or not a URL is already known
NeedsHistory_always(u) == TRUE

\* line 90: url = url or await self._get_last_image_post(ctx)
NeedsHistory(u) == u = None

FallBack(w, u) ==
    IF NeedsHistory(u)
    THEN [w EXCEPT !.r = [Log(w.r, <<"history">>) EXCEPT !.pc = "history", !.url = u]]
    ELSE Resolved(w, u)

\* a reply that yielded no URL falls through to the history scan
AfterReference_fallthrough(w, u) == FallBack(w, u)

\* lines 78-90: a reply that yielded no URL aborts
AfterReference(w, u) ==
    IF u = None
    THEN [w EXCEPT !.r = Done(Log(w.r, <<"reply_no_images">>), "no_images")]
    ELSE FallBack(w, u)

\* Sauce._index_prompt, lines 284-293: send the prompt, add the keycap
\* reactions, wait for the author's reaction
_index_prompt(w, caller, items) ==
    [w EXCEPT !.r = [Log(w.r, <<"prompt">>) EXCEPT
                        !.pc = "prompt", !.caller = caller, !.items = items,
                        !.prompt = "sent",
                        !.reactions = [k \in index_range(items) |-> keycap_emoji(k)]]]

\* lines 66-76: the replied-to message
Reference(w, reference) ==
    LET image_attachments ==
            IF reference.kind = "message"
            THEN _get_image_attachments(reference.msg) ELSE <<>>
    IN  IF Len(image_attachments) > 1
        THEN _index_prompt(w, "reference", image_attachments)
        ELSE IF Len(image_attachments) = 1
        THEN AfterReference(w, Some(image_attachments[1].url))
        ELSE AfterReference(w, None)

\* the scan that keeps going and settles on the oldest qualifying message
_get_last_image_post_oldest(w, hist) ==
    LET Match(k) == \/ _get_image_attachments(hist[k]) /= <<>>
                    \/ IMAGE_URL_RE(hist[k].content)
        found == {k \in 1..Len(hist) : Match(k)}
    IN  IF found = {}
        THEN Resolved(w, None)
        ELSE LET k == CHOOSE j \in found : \A l \in found : j >= l
                 image_attachments == _get_image_attachments(hist[k])
             IN  IF image_attachments /= <<>>
                 THEN IF Len(image_attachments) > 1
                      THEN _index_prompt(w, "history", image_attachments)
                      ELSE Resolved(w, _get_attachment_image(image_attachments[1]))
                 ELSE Resolved(w, hist[k].content)

\* Sauce._get_last_image_post, lines 228-245, over the page the channel returned
_get_last_image_post(w, hist) ==
    LET Match(k) == \/ _get_image_attachments(hist[k]) /= <<>>
                    \/ IMAGE_URL_RE(hist[k].content)
        found == {k \in 1..Len(hist) : Match(k)}
    IN  IF found = {}
        THEN Resolved(w, None)
        ELSE LET k == CHOOSE j \in found : \A l \in found : j <= l
                 image_attachments == _get_image_attachments(hist[k])
             IN  IF image_attachments /= <<>>
                 THEN IF Len(image_attachments) > 1
                      THEN _index_prompt(w, "history", image_attachments)
                      ELSE Resolved(w, _get_attachment_image(image_attachments[1]))
                 ELSE Resolved(w, hist[k].content)

\* the purge task holds the event loop between two of its awaits
LoopFree == purge \in {"ready", "sleep"}

\* a segment of an invocation runs when the event loop is free
Store(i, w) ==
    /\ LoopFree
    /\ inv' = [inv EXCEPT ![i] = w.r]
    /\ queries' = w.queries
    /\ cache' = w.cache
    /\ UNCHANGED <<servers, member_limit, tracemoe, reg, purge>>

Commit(i, w) == Store(i, w) /\ UNCHANGED tokens

----------------------------------------------------------------------------
(* Inputs *)

\* attachment lists of the command message
CmdAtts == {AttList("cmd", n, 0) : n \in 0..MaxAtt} \cup {AttList("cmd", 1, 2)}

\* the replied-to message, once the reference is a discord.Message
RefMsgs == {Message(a, None) : a \in AttLists("ref")}

\* messages other users posted after the command message and before the
\* history page is read
NewMsgs ==
    {Message(<<Attachment("new", 1, "jpg")>>, None),
     Message(<<>>, Some(Url("https", "y", "new", 0, "png", ""))),
     Message(<<>>, None)}

NewerPages == UNION {[1..n -> NewMsgs] : n \in 0..MaxNewer}

\* messages older than the command message
OldMsgs ==
    {Message(AttList("old", 2, 1), None),
     Message(<<>>, Some(Url("https", "y", "old", 0, "webp", "")))}

OlderPages == {<<>>} \cup {<<m>> : m \in OldMsgs}

\* search.results of SauceNao.from_url, in priority order
SearchResults == {<<>>, <<GenericR>>, <<AnimeR, GenericR>>}

SauceNaoExceptions ==
    {"ShortLimitReachedException", "DailyLimitReachedException",
     "InvalidOrWrongApiKeyException", "InvalidImageException", "SauceNaoException"}

\* trace.moe search: an exception, or the docs list
TraceMoeResponses ==
    {[kind |-> "raise", docs |-> <<>>], [kind |-> "ok", docs |-> <<>>]}
        \cup {[kind |-> "ok", docs |-> <<[anilist_id |-> a, is_adult |-> x]>>] :
                 a \in {100, 200}, x \in BOOLEAN}

\* sauce.load_ids(): raises, finds no ids, or loads sauce.anilist_id
LoadIds == {[kind |-> "raise", anilist_id |-> 0], [kind |-> "none", anilist_id |-> 0],
            [kind |-> "loaded", anilist_id |-> 100]}
NoIds == [kind |-> "none", anilist_id |-> 0]

\* tracemoe.video_preview_natural: raises, no bytes, or the clip
Clips == {[kind |-> "raise", bytes |-> None], [kind |-> "ok", bytes |-> None],
          [kind |-> "ok", bytes |-> Some("")], [kind |-> "ok", bytes |-> Some("mp4")]}

----------------------------------------------------------------------------
(* Actions: one per segment of the coroutine between two awaits *)

RefKinds == {"none", "deleted", "message"}

\* lines 49-90 up to the first suspension, for a command message drawn from
\* the given authors, URL arguments, attachment lists and kinds of reference;
\* r0 is the record of the invocation so far
Body(i, r0, authors, args, attlists, refkinds) ==
    \E author \in authors, allowed \in BOOLEAN :
         IF ~allowed
         THEN \* line 55: wrong channel or the bot's own message
              Store(i, World(Done([r0 EXCEPT !.author = author, !.runs = r0.runs + 1],
                                  "ignored")))
         ELSE \E arg \in args, atts \in attlists, refkind \in refkinds :
                LET message == Message(atts, None)
                    image_in_command ==
                        arg /= None \/ _get_image_attachments(message) /= <<>>
                    r == [r0 EXCEPT !.author = author, !.arg = arg, !.url = arg,
                                    !.message = message,
                                    !.image_in_command = image_in_command,
                                    !.reference = [kind |-> refkind, msg |-> EmptyMsg],
                                    !.count0 = SauceQueries_user_count(queries, author),
                                    !.runs = r0.runs + 1]
                IN  IF refkind /= "none" /\ ~image_in_command
                    THEN \E ref \in (IF refkind = "message"
                                     THEN {MsgRef(m) : m \in RefMsgs} ELSE {DeletedRef}) :
                           Store(i, Reference(World([r EXCEPT !.reference = ref]), ref))
                    ELSE Store(i, FallBack(World(r), arg))

\* the command is invoked within the guild's cooldown (line 48): one call of
\* the window is used and the body runs
Invoke(i, authors, args, attlists, refkinds) ==
    /\ inv[i].pc = "idle"
    /\ tokens > 0
    /\ tokens' = tokens - 1
    /\ Body(i, Idle, authors, args, attlists, refkinds)

sauce(i) == Invoke(i, Users, Args, CmdAtts, RefKinds)

\* _index_prompt, lines 299-300: the author reacts with an offered emoji
reaction_add(i) ==
    /\ inv[i].pc = "prompt"
    /\ \E k \in 1..Len(inv[i].reactions) :
         LET reaction   == inv[i].reactions[k]
             attachment == PyIndex(inv[i].items, keycap_to_int(reaction) - 1)
             r == [Log(inv[i], <<"reaction">>) EXCEPT
                      !.prompt = "deleted", !.picked = k,
                      !.attachment = Some(attachment)]
         IN  IF r.caller = "reference"
             THEN Commit(i, AfterReference(World(r), Some(attachment.url)))
             ELSE Commit(i, Resolved(World(r), _get_attachment_image(attachment)))

\* _index_prompt, lines 294-297: no accepted reaction within 60 seconds; the
\* prompt returns None, which both callers dereference (lines 74 and 238)
TimeoutError(i) ==
    /\ inv[i].pc = "prompt"
    /\ Commit(i, World(Done([Log(inv[i], <<"timeout">>) EXCEPT
                                !.deleted = TRUE, !.prompt = "deleted"],
                            "AttributeError")))

\* ctx.channel.history(limit=50) returns its page, newest first, of a
\* channel that holds the given newer messages, the command message and the
\* given older ones
ChannelPage(i, newers, olders) ==
    /\ inv[i].pc = "history"
    /\ \E newer \in newers, older \in olders :
         LET channel == newer \o <<inv[i].message>> \o older
             hist    == Take(channel, HistoryLimit)
         IN  Commit(i, _get_last_image_post(
                           World([inv[i] EXCEPT !.hist = hist, !.channel = channel]),
                           hist))

history(i) == ChannelPage(i, NewerPages, OlderPages)

\* the top result returned without the cache write
SearchReturned_nowrite(w, results) ==
    LET top == IF results /= <<>> THEN Some(results[1]) ELSE None
        r   == [Log(w.r, <<"results">>) EXCEPT !.sauce = top, !.results = Some(results)]
    IN  AfterLookup([w EXCEPT !.r = r])

\* _get_sauce, lines 331-347: the top result, cached when there is one
SearchReturned(w, results) ==
    LET top == IF results /= <<>> THEN Some(results[1]) ELSE None
        r   == [Log(w.r, IF top /= None THEN <<"results", "cache_write">>
                                        ELSE <<"results">>) EXCEPT
                   !.sauce = top, !.results = Some(results)]
        c   == IF top /= None
               THEN SauceCache_add_or_update(w.cache, r.url[1], top[1])
               ELSE w.cache
    IN  AfterLookup([w EXCEPT !.r = r, !.cache = c])

\* SauceNao.from_url returned its results
from_url_return(i) ==
    /\ inv[i].pc = "search"
    /\ \E results \in SearchResults :
         Commit(i, SearchReturned(World(inv[i]), results))

\* lines 131-173: the search raised
ErrorReply(exc) ==
    CASE exc \in {"ShortLimitReachedException", "DailyLimitReachedException"}
                                                  -> "api_limit_exceeded"
      [] exc = "InvalidOrWrongApiKeyException"    -> "rejected_api_key"
      [] exc = "InvalidImageException"            -> "invalid_image"
      [] OTHER                                    -> "api_offline"

\* the error reported with the command message left in place
Failed_nodelete(r, exc) ==
    Done([Log(r, <<"raise", "reply_error">>) EXCEPT !.exc = exc], ErrorReply(exc))

\* the search issued once more after its first failure
Failed_retry(r, exc) ==
    IF ~Contains(r.trace, "raise")
    THEN [Log(r, <<"raise", "search">>) EXCEPT !.pc = "search"]
    ELSE Done([Log(r, <<"raise", "delete", "reply_error">>) EXCEPT
                  !.deleted = TRUE, !.exc = exc],
              ErrorReply(exc))

\* lines 131-173: each handler deletes the command message, replies with
\* its message and returns
Failed(r, exc) ==
    Done([Log(r, <<"raise", "delete", "reply_error">>) EXCEPT
             !.deleted = TRUE, !.exc = exc],
         ErrorReply(exc))

\* SauceNao.from_url raised
from_url_raise(i) ==
    /\ inv[i].pc = "search"
    /\ \E exc \in SauceNaoExceptions :
         Commit(i, World(Failed(inv[i], exc)))

\* what _video_preview hands back: the clip and its flag, with the step that
\* failed, whether the failure left the coroutine, and whether the clip was
\* asked for
Preview(failed, raised, file, nsfw, fetched) ==
    [failed |-> failed, raised |-> raised, file |-> file, nsfw |-> nsfw,
     fetched |-> fetched]

NoPreview == Preview("", FALSE, None, FALSE, FALSE)

\* the clip fetched whatever the two ids are
_video_preview_nocompare(configured, tm, ids, clip) ==
    IF ~configured THEN NoPreview
    ELSE IF tm.kind = "raise" THEN Preview("search", FALSE, None, FALSE, FALSE)
    ELSE IF tm.docs = <<>> THEN NoPreview
    ELSE IF ids.kind = "raise" THEN Preview("load_ids", TRUE, None, FALSE, FALSE)
    ELSE IF ids.kind = "loaded"
    THEN IF clip.kind = "raise"
         THEN Preview("fetch", TRUE, None, FALSE, TRUE)
         ELSE Preview("", FALSE, clip.bytes, tm.docs[1].is_adult, TRUE)
    ELSE NoPreview

\* Sauce._video_preview, lines 419-443: only the search of lines 423-430 is
\* inside the try
_video_preview(configured, tm, ids, clip) ==
    IF ~configured THEN NoPreview
    ELSE IF tm.kind = "raise" THEN Preview("search", FALSE, None, FALSE, FALSE)
    ELSE IF tm.docs = <<>> THEN NoPreview
    ELSE IF ids.kind = "raise" THEN Preview("load_ids", TRUE, None, FALSE, FALSE)
    ELSE IF ids.kind = "loaded"
    THEN IF ids.anilist_id /= tm.docs[1].anilist_id
         THEN NoPreview
         ELSE IF clip.kind = "raise"
         THEN Preview("fetch", TRUE, None, FALSE, TRUE)
         ELSE Preview("", FALSE, clip.bytes, tm.docs[1].is_adult, TRUE)
    ELSE NoPreview

NoSearch == [kind |-> "ok", docs |-> <<>>]
NoClip   == [kind |-> "ok", bytes |-> None]

\* the clip attached in any channel
AttachPreview_anychannel(preview_file, nsfw, is_nsfw) ==
    preview_file /= None /\ preview_file[1] /= ""

\* lines 178-185: a clip with content is attached unless it is flagged and
\* the channel is not marked NSFW
AttachPreview(preview_file, nsfw, is_nsfw) ==
    /\ preview_file /= None /\ preview_file[1] /= ""
    /\ ~(nsfw /\ ~is_nsfw)

\* lines 177-185, then the reply; each collaborator answers only when the
\* code reaches its call
video_preview(i) ==
    /\ inv[i].pc = "preview"
    /\ \E tm \in (IF tracemoe THEN TraceMoeResponses ELSE {NoSearch}) :
       \E ids \in (IF tm.docs /= <<>> THEN LoadIds ELSE {NoIds}) :
       \E clip \in (IF ids.kind = "loaded" THEN Clips ELSE {NoClip}) :
         LET p == _video_preview(tracemoe, tm, ids, clip) IN
         \E is_nsfw \in (IF p.file /= None THEN BOOLEAN ELSE {FALSE}) :
           LET r == [inv[i] EXCEPT
                        !.preview_file = p.file, !.nsfw = p.nsfw,
                        !.channel_nsfw = is_nsfw,
                        !.xref = IF ids.kind = "loaded" THEN Some(ids.anilist_id)
                                                        ELSE None,
                        !.tm_id = IF tm.docs /= <<>> THEN Some(tm.docs[1].anilist_id)
                                                     ELSE None,
                        !.fetched = p.fetched, !.failed = p.failed]
           IN  IF p.raised
               THEN Commit(i, World(Done(Log(r, <<"raise">>), "exception")))
               ELSE Commit(i, Reply(World(r), AttachPreview(p.file, p.nsfw, is_nsfw)))

----------------------------------------------------------------------------
(* The guild's cooldown and the apikey command *)

GuildAuthors  == {1}
GuildArgs     == {Some(GoodUrl)}
GuildAtts     == {<<>>}
GuildRefKinds == {"none"}

\* the command of a guild member with a URL argument
GuildSauce(i) == Invoke(i, GuildAuthors, GuildArgs, GuildAtts, GuildRefKinds)

\* the guild's key never lifts the cooldown
ShouldReinvoke_never(key) == FALSE

\* line 457: a guild with a key of its own is not held to the cooldown
ShouldReinvoke(key) == key /= None

\* Sauce.sauce_error for CommandOnCooldown, raised before the body when the
\* window of line 48 has no call left: ctx.reinvoke() runs the body without
\* the cooldown, otherwise the limit is reported and the error re-raised
sauce_error(i) ==
    /\ inv[i].pc = "idle"
    /\ tokens = 0
    /\ UNCHANGED tokens
    /\ LET key == Servers_lookup_guild(servers)
           r0  == [Idle EXCEPT !.cooldown = TRUE, !.key_at_trip = key]
       IN  IF ShouldReinvoke(key)
           THEN Body(i, Log(r0, <<"reinvoke">>),
                     GuildAuthors, GuildArgs, GuildAtts, GuildRefKinds)
           ELSE Store(i, World(Done(Log(r0, <<"reply_guild_limit">>),
                                    "guild_limit_exceeded")))

\* line 36: re.match of ^[a-zA-Z0-9]{40}$, where $ also matches before a
\* newline that ends the string
_re_api_key_match(k) == k.alnum /\ k.length = KeyLen

\* the strings an administrator may pass to the command
KeyInputs ==
    {ApiKey("new", KeyLen, TRUE, FALSE), ApiKey("new", KeyLen, TRUE, TRUE),
     ApiKey("new", KeyLen, FALSE, FALSE), ApiKey("new", KeyLen - 1, TRUE, FALSE),
     ApiKey("new", KeyLen + 1, TRUE, FALSE)}

\* the answers of saucenao.test()
TestResults ==
    {[success |-> FALSE, account_type |-> "unknown"],
     [success |-> TRUE, account_type |-> "basic"],
     [success |-> TRUE, account_type |-> "enhanced"]}

ACCOUNT_ENHANCED == "enhanced"

\* Sauce.apikey, lines 502-516: the message is deleted, the format checked
\* and the test of the key awaited
apikey ==
    /\ LoopFree
    /\ reg.pc \in {"idle", "done"}
    /\ \E api_key \in KeyInputs :
         LET r == [NoReg EXCEPT !.api_key = Some(api_key), !.stored0 = servers]
         IN  reg' = IF ~_re_api_key_match(api_key)
                    THEN [r EXCEPT !.pc = "done", !.outcome = "bad_api_key"]
                    ELSE [r EXCEPT !.pc = "test"]
    /\ UNCHANGED <<inv, queries, cache, servers, member_limit, tracemoe, tokens, purge>>

\* Sauce.apikey, lines 518-549: the test answered
test_return ==
    /\ LoopFree
    /\ reg.pc = "test"
    /\ \E test \in TestResults :
         LET r == [reg EXCEPT !.pc = "done", !.test = Some(test)] IN
         IF ~test.success
         THEN reg' = [r EXCEPT !.outcome = "api_offline"] /\ UNCHANGED servers
         ELSE IF test.account_type /= ACCOUNT_ENHANCED
         THEN reg' = [r EXCEPT !.outcome = "api_free"] /\ UNCHANGED servers
         ELSE /\ reg' = [r EXCEPT !.outcome = "registered_api_key"]
              /\ servers' = Servers_register(servers, reg.api_key[1])
    /\ UNCHANGED <<inv, queries, cache, member_limit, tracemoe, tokens, purge>>

----------------------------------------------------------------------------
(* The purge_cache task, lines 551-566 *)

\* SauceCache.purge_cache(): the entries older than 24 hours are deleted
SauceCache_purge_cache(c, expired) == [u \in DOMAIN c \ expired |-> c[u]]

\* line 558 or line 564: bot.wait_until_ready() or asyncio.sleep(21600)
\* returns and the task runs into the try of line 561
wake ==
    /\ purge \in {"ready", "sleep"}
    /\ purge' = "try"
    /\ UNCHANGED <<inv, queries, cache, servers, member_limit, tracemoe, tokens, reg>>

\* lines 562-564: the purge succeeds and the task suspends in asyncio.sleep
purge_cache ==
    /\ purge = "try"
    /\ \E expired \in SUBSET DOMAIN cache :
         cache' = SauceCache_purge_cache(cache, expired)
    /\ purge' = "sleep"
    /\ UNCHANGED <<inv, queries, servers, member_limit, tracemoe, tokens, reg>>

\* line 563 raises: control passes to the handler of line 565 without the
\* await of line 564
purge_raise ==
    /\ purge = "try"
    /\ purge' = "except"
    /\ UNCHANGED <<inv, queries, cache, servers, member_limit, tracemoe, tokens, reg>>

\* lines 565-566, then line 560: the exception is logged and the loop goes
\* round to the try, with no await on the way
purge_except ==
    /\ purge = "except"
    /\ purge' = "try"
    /\ UNCHANGED <<inv, queries, cache, servers, member_limit, tracemoe, tokens, reg>>

----------------------------------------------------------------------------
(* Specification: one invocation, started from any stored state *)

OldUrl == Url("https", "x", "old", 0, "jpg", "")

PreLogs == {[k \in 1..n |-> QueryEntry(1, OldUrl)] : n \in 0..MaxPre}

RefUrl == Attachment("ref", 1, "jpg").url

PreCache == [u \in {GoodUrl, RefUrl} |->
                IF u = GoodUrl THEN CacheEntry(AnimeR) ELSE CacheEntry(StaleR)]

Init ==
    /\ inv = <<Idle>>
    /\ queries \in PreLogs
    /\ cache \in {EmptyCache, PreCache}
    /\ servers \in {None, Some(GuildKey)}
    /\ member_limit \in 0..MaxLimit
    /\ tracemoe \in BOOLEAN
    /\ tokens = 1
    /\ reg = NoReg
    /\ purge = "sleep"

Next ==
    \E i \in DOMAIN inv :
        \/ sauce(i)
        \/ reaction_add(i)
        \/ TimeoutError(i)
        \/ history(i)
        \/ from_url_return(i)
        \/ from_url_raise(i)
        \/ video_preview(i)

Spec == Init /\ [][Next]_vars

----------------------------------------------------------------------------
(* Specification: two invocations of one guild under its cooldown, and the *)
(* guild's administrator registering keys                                  *)

MaxCalls == 1

InitGuild ==
    /\ inv = <<Idle, Idle>>
    /\ queries = <<>>
    /\ cache = EmptyCache
    /\ servers \in {None, Some(GuildKey)}
    /\ member_limit = 0
    /\ tracemoe = FALSE
    /\ tokens \in 0..MaxCalls
    /\ reg = NoReg
    /\ purge = "sleep"

NextGuild ==
    \/ \E i \in DOMAIN inv :
          \/ GuildSauce(i)
          \/ sauce_error(i)
          \/ from_url_return(i)
          \/ from_url_raise(i)
          \/ video_preview(i)
    \/ apikey
    \/ test_return

SpecGuild == InitGuild /\ [][NextGuild]_vars

----------------------------------------------------------------------------
(* Specification: one invocation with no image of its own and no reply, in *)
(* a channel with more messages than one history page holds                *)

\* messages without attachment or link that fill a page up to its last place
Filler == [k \in 1..(HistoryLimit - 2) |-> EmptyMsg]

\* older messages: none, one that qualifies, one with several images, and
\* one that qualifies behind the filler, on the last place of the page or
\* just beyond it
HistoryOlder ==
    OlderPages
        \cup {<<Message(AllImages("old", MaxAtt), None)>>}
        \cup {Filler \o <<m>> : m \in OldMsgs}

HistorySauce(i) == Invoke(i, Users, {None}, {<<>>}, {"none"})

ChannelHistory(i) == ChannelPage(i, NewerPages, HistoryOlder)

InitHistory ==
    /\ inv = <<Idle>>
    /\ queries \in PreLogs
    /\ cache = EmptyCache
    /\ servers = None
    /\ member_limit \in 0..MaxLimit
    /\ tracemoe = FALSE
    /\ tokens = 1
    /\ reg = NoReg
    /\ purge = "sleep"

NextHistory ==
    \E i \in DOMAIN inv :
        \/ HistorySauce(i)
        \/ ChannelHistory(i)
        \/ reaction_add(i)
        \/ TimeoutError(i)
        \/ from_url_return(i)
        \/ from_url_raise(i)
        \/ video_preview(i)

SpecHistory == InitHistory /\ [][NextHistory]_vars

----------------------------------------------------------------------------
(* Specification: three invocations running concurrently under a member    *)
(* limit, the users starting below it                                      *)

MemberSauce(i) == Invoke(i, Users, GuildArgs, GuildAtts, GuildRefKinds)

InitMembers ==
    /\ inv = <<Idle, Idle, Idle>>
    /\ member_limit \in 1..MaxLimit
    /\ queries \in {q \in PreLogs :
                       \A u \in Users : SauceQueries_user_count(q, u) < member_limit}
    /\ cache = EmptyCache
    /\ servers = None
    /\ tracemoe = FALSE
    /\ tokens = Len(inv)
    /\ reg = NoReg
    /\ purge = "sleep"

NextMembers ==
    \E i \in DOMAIN inv :
        \/ MemberSauce(i)
        \/ from_url_return(i)
        \/ from_url_raise(i)
        \/ video_preview(i)

SpecMembers == InitMembers /\ [][NextMembers]_vars

----------------------------------------------------------------------------
(* Specification: one invocation beside the purge task on one event loop.  *)
(* The loop runs every handler that is ready each time the running task    *)
(* suspends, long before a six-hour sleep ends: strong fairness for the    *)
(* steps of the invocation. Code that is running keeps running: weak       *)
(* fairness for the steps of the purge task. Whether purge_cache raises is *)
(* up to the store.                                                        *)

InitPurge ==
    /\ inv = <<Idle>>
    /\ queries = <<>>
    /\ cache \in {EmptyCache, PreCache}
    /\ servers \in {None, Some(GuildKey)}
    /\ member_limit = 0
    /\ tracemoe \in BOOLEAN
    /\ tokens = 1
    /\ reg = NoReg
    /\ purge = "ready"

NextPurge ==
    \/ GuildSauce(1)
    \/ from_url_return(1)
    \/ from_url_raise(1)
    \/ video_preview(1)
    \/ wake
    \/ purge_cache
    \/ purge_raise
    \/ purge_except

FairPurge ==
    /\ SF_vars(GuildSauce(1))
    /\ SF_vars(from_url_return(1) \/ from_url_raise(1))
    /\ SF_vars(video_preview(1))
    /\ WF_vars(wake)
    /\ WF_vars(purge_cache \/ purge_raise)
    /\ WF_vars(purge_except)

SpecPurge == InitPurge /\ [][NextPurge]_vars /\ FairPurge

----------------------------------------------------------------------------
(* Properties *)

HasEvent(r, e) == Contains(r.trace, e)

\* _get_sauce was entered
LookedUp(r) == HasEvent(r, "lookup_guild")

InlineBoth(r) ==
    r.arg /= None /\ _get_image_attachments(r.message) /= <<>>

\* C1 as stated: with an explicit URL and a qualifying attachment on the
\* command message, the URL handed to the lookup is an attachment's URL
C1_AttachmentWins ==
    \A i \in DOMAIN inv :
        (InlineBoth(inv[i]) /\ LookedUp(inv[i])) =>
            \E k \in 1..Len(inv[i].message.attachments) :
                inv[i].url = Some(inv[i].message.attachments[k].url)

\* C1 amended: with an explicit URL and a qualifying attachment on the
\* command message, the URL handed to the lookup is the explicit URL argument
C1_ExplicitUrlWins ==
    \A i \in DOMAIN inv :
        (InlineBoth(inv[i]) /\ LookedUp(inv[i])) =>
            /\ inv[i].url = inv[i].arg
            /\ ~HasEvent(inv[i], "history")

C1_Witness ==
    \E i \in DOMAIN inv :
        /\ InlineBoth(inv[i])
        /\ LookedUp(inv[i])
        /\ inv[i].arg = Some(GoodUrl)

EarlyFailures == {"no_images", "bad_url", "member_limited"}

\* C2: an invocation that ends in a resolution failure or a member-limit
\* rejection never enters _get_sauce: nothing is logged, the cache is not
\* read and no search is issued
C2_ShortCircuit ==
    \A i \in DOMAIN inv :
        (inv[i].pc = "done" /\ inv[i].outcome \in EarlyFailures) =>
            /\ ~LookedUp(inv[i])
            /\ ~HasEvent(inv[i], "log")
            /\ ~HasEvent(inv[i], "cache_read")
            /\ ~HasEvent(inv[i], "search")
            /\ inv[i].logged = 0
            /\ SauceQueries_user_count(queries, inv[i].author) = inv[i].count0

C2_Witness ==
    \E i \in DOMAIN inv :
        /\ inv[i].pc = "done"
        /\ inv[i].outcome = "member_limited"
        /\ inv[i].count0 > 0

\* C3: an invocation that reaches the member check is rejected exactly when
\* the limit is positive and the user's logged count has reached it
C3_MemberLimit ==
    \A i \in DOMAIN inv :
        inv[i].checked >= 0 =>
            /\ inv[i].checked = inv[i].count0
            /\ (inv[i].outcome = "member_limited") <=>
                   (member_limit > 0 /\ inv[i].checked >= member_limit)
            /\ (member_limit = 0 => inv[i].outcome /= "member_limited")

C3_Witness ==
    \E i \in DOMAIN inv :
        /\ member_limit > 0
        /\ inv[i].checked = member_limit
        /\ inv[i].outcome = "member_limited"

\* C4: when the cache read finds an entry, no search is issued and the
\* result is the entry's variant, header and payload
C4_CacheHit ==
    \A i \in DOMAIN inv :
        inv[i].cache0 /= None =>
            /\ ~HasEvent(inv[i], "search")
            /\ inv[i].pc /= "search"
            /\ inv[i].results = None
            /\ inv[i].sauce /= None
            /\ inv[i].sauce[1].class = inv[i].cache0[1].result_class
            /\ inv[i].sauce[1].header = inv[i].cache0[1].header
            /\ inv[i].sauce[1].data = inv[i].cache0[1].result

C4_Witness ==
    \E i \in DOMAIN inv :
        /\ inv[i].cache0 /= None
        /\ inv[i].pc = "done"

Before(r, a, b) == 0 < IndexOf(r.trace, a) /\ IndexOf(r.trace, a) < IndexOf(r.trace, b)

LookupErrors ==
    {"api_limit_exceeded", "rejected_api_key", "invalid_image", "api_offline"}

\* C5: every run of _get_sauce appends the query (url, user, guild) before
\* the cache read and before the search, and the entry is still in the log
\* afterwards, also when the search failed
C5_LogFirst ==
    \A i \in DOMAIN inv :
        /\ LookedUp(inv[i]) => (HasEvent(inv[i], "log") /\ inv[i].logged > 0)
        /\ HasEvent(inv[i], "cache_read") => Before(inv[i], "log", "cache_read")
        /\ HasEvent(inv[i], "search") => Before(inv[i], "log", "search")
        /\ inv[i].logged > 0 =>
               /\ inv[i].logged <= Len(queries)
               /\ queries[inv[i].logged] =
                      [user |-> inv[i].author, guild |-> Guild, url |-> inv[i].url[1]]

C5_Witness ==
    \E i \in DOMAIN inv :
        /\ inv[i].outcome \in LookupErrors
        /\ inv[i].logged > 0

AnsweredFromCache(r) == r.pc = "done" /\ r.cache0 /= None /\ r.outcome = "replied"

\* C6 as stated: an invocation answered from the cache leaves the user's
\* query count as it was before the invocation
C6_CountUnchanged ==
    \A i \in DOMAIN inv :
        AnsweredFromCache(inv[i]) =>
            SauceQueries_user_count(queries, inv[i].author) = inv[i].count0

\* C6 amended: an invocation answered from the cache issues no search, and
\* its query is logged: the user's query count is one higher than before
C6_CountPlusOne ==
    \A i \in DOMAIN inv :
        AnsweredFromCache(inv[i]) =>
            /\ ~HasEvent(inv[i], "search")
            /\ SauceQueries_user_count(queries, inv[i].author) = inv[i].count0 + 1

C6_Witness ==
    \E i \in DOMAIN inv :
        /\ AnsweredFromCache(inv[i])
        /\ inv[i].count0 > 0

\* C7: a search that returns results after a miss stores the top result
\* under the URL and returns it; a search that returns nothing or raises
\* leaves the cache as it was
C7_CacheUpdate ==
    [][\A i \in DOMAIN inv :
         (inv[i].pc = "search" /\ inv'[i].pc /= "search") =>
            IF inv'[i].results /= None /\ inv'[i].results[1] /= <<>>
            THEN LET u   == inv[i].url[1]
                     top == inv'[i].results[1][1]
                 IN  /\ DOMAIN cache' = DOMAIN cache \cup {u}
                     /\ cache'[u].result_class = top.class
                     /\ cache'[u].header = top.header
                     /\ cache'[u].result = top.data
                     /\ \A v \in DOMAIN cache : v /= u => cache'[v] = cache[v]
                     /\ inv'[i].sauce = Some(top)
            ELSE /\ cache' = cache
                 /\ inv'[i].sauce = None]_vars

C7_Witness ==
    \E i \in DOMAIN inv :
        /\ inv[i].results /= None
        /\ inv[i].results[1] /= <<>>
        /\ inv[i].cache0 = None
        /\ inv[i].url[1] \in DOMAIN cache

NoLookupWork(r) ==
    /\ ~HasEvent(r, "member_check")
    /\ ~HasEvent(r, "log")
    /\ ~HasEvent(r, "cache_read")
    /\ ~HasEvent(r, "search")

\* C8 as stated: after a prompt timeout both messages are deleted and the
\* invocation ends as a "no image" resolution failure, without member check,
\* query log or lookup, on both prompt paths
C8_TimeoutIsNoImage ==
    \A i \in DOMAIN inv :
        HasEvent(inv[i], "timeout") =>
            /\ inv[i].prompt = "deleted"
            /\ inv[i].deleted
            /\ inv[i].pc = "done"
            /\ inv[i].outcome = "no_images"
            /\ NoLookupWork(inv[i])

\* C9: the prompt offers the keycaps 1..min(n, 10) for n >= 2 items, and a
\* reaction with the k-th keycap deletes the prompt and returns the k-th item
C9_Disambiguation ==
    \A i \in DOMAIN inv :
        inv[i].prompt /= "none" =>
            /\ Len(inv[i].items) >= 2
            /\ Len(inv[i].reactions) = Min(Len(inv[i].items), 10)
            /\ \A k \in 1..Len(inv[i].reactions) : inv[i].reactions[k] = [keycap |-> k]
            /\ inv[i].picked > 0 =>
                   /\ inv[i].prompt = "deleted"
                   /\ inv[i].attachment = Some(inv[i].items[inv[i].picked])

C9_Witness ==
    \E i \in DOMAIN inv :
        /\ Len(inv[i].items) = 3
        /\ Len(inv[i].reactions) = 3
        /\ inv[i].picked = 2
        /\ inv[i].attachment = Some(inv[i].items[2])

ReplyWithoutImage(r) ==
    /\ r.pc /= "idle"
    /\ r.outcome /= "ignored"
    /\ r.reference.kind /= "none"
    /\ r.arg = None
    /\ _get_image_attachments(r.message) = <<>>
    /\ _get_image_attachments(r.reference.msg) = <<>>

\* C10: a reply without inline image whose replied-to message has no
\* qualifying attachment (or is not a message) fails with the no-image
\* error at once, and the channel history is never read
C10_ReplyAborts ==
    \A i \in DOMAIN inv :
        ReplyWithoutImage(inv[i]) =>
            /\ inv[i].pc = "done"
            /\ inv[i].outcome = "no_images"
            /\ ~HasEvent(inv[i], "history")
            /\ inv[i].hist = <<>>
            /\ NoLookupWork(inv[i])

C10_Witness ==
    \E i \in DOMAIN inv :
        /\ ReplyWithoutImage(inv[i])
        /\ inv[i].reference.kind = "message"
        /\ inv[i].reference.msg.attachments /= <<>>

\* C11: an invocation that trips the guild's cooldown is run once, without
\* the quota message, when the guild has a key at that moment; without a key
\* it gets the quota message and its body is not run; no invocation runs its
\* body more than once
C11_SingleRetry ==
    \A i \in DOMAIN inv :
        LET r == inv[i] IN
        /\ r.runs <= 1
        /\ (r.cooldown /\ r.key_at_trip /= None) =>
               /\ r.runs = 1
               /\ r.outcome /= "guild_limit_exceeded"
               /\ ~HasEvent(r, "reply_guild_limit")
        /\ (r.cooldown /\ r.key_at_trip = None) =>
               /\ r.runs = 0
               /\ r.pc = "done"
               /\ r.outcome = "guild_limit_exceeded"
               /\ ~LookedUp(r)

\* one invocation was rejected, a key was registered, and the next one ran
\* to its reply despite the cooldown
C11_Witness ==
    /\ inv[1].cooldown /\ inv[1].outcome = "guild_limit_exceeded"
    /\ reg.outcome = "registered_api_key"
    /\ inv[2].cooldown /\ inv[2].key_at_trip /= None
    /\ inv[2].pc = "done" /\ inv[2].outcome = "replied"

\* the primary result's AniList id and the id of trace.moe's top match are
\* both known and differ
Mismatch(r) == r.xref /= None /\ r.tm_id /= None /\ r.xref /= r.tm_id

\* C12: for an anime result whose AniList id differs from that of trace.moe's
\* top match, no clip is fetched or attached and the result is replied
C12_Mismatch ==
    \A i \in DOMAIN inv :
        LET r == inv[i] IN
        Mismatch(r) =>
            /\ ~r.fetched
            /\ r.preview_file = None
            /\ ~r.preview
            /\ r.pc = "done" /\ r.outcome = "replied"
            /\ HasEvent(r, "reply_sauce")

C12_Witness ==
    \E i \in DOMAIN inv :
        /\ inv[i].sauce /= None /\ inv[i].sauce[1].class = "AnimeSource"
        /\ inv[i].xref = Some(100) /\ inv[i].tm_id = Some(200)
        /\ inv[i].outcome = "replied"

\* C13: a failure of the trace.moe search, of load_ids or of the download
\* of the clip leaves the invocation without a clip and with its reply
C13_Swallowed ==
    \A i \in DOMAIN inv :
        LET r == inv[i] IN
        r.failed /= "" =>
            /\ r.preview_file = None
            /\ r.pc = "done" /\ r.outcome = "replied"
            /\ HasEvent(r, "reply_sauce")

\* _video_preview returned a clip with content
HasClip(r) == r.pc = "done" /\ r.preview_file /= None /\ r.preview_file[1] /= ""

\* C16: a clip flagged explicit is attached exactly when the channel is
\* marked NSFW, a clip not flagged is attached in any channel, an attached
\* file is always such a clip, and the result is replied in every case
C16_ExplicitPolicy ==
    \A i \in DOMAIN inv :
        LET r == inv[i] IN
        /\ HasClip(r) =>
              /\ r.nsfw => (r.preview <=> r.channel_nsfw)
              /\ ~r.nsfw => r.preview
              /\ r.outcome = "replied" /\ HasEvent(r, "reply_sauce")
        /\ r.preview => HasClip(r)

\* an explicit clip withheld in a channel not marked NSFW
C16_Witness ==
    \E i \in DOMAIN inv :
        /\ HasClip(inv[i]) /\ inv[i].nsfw /\ ~inv[i].channel_nsfw
        /\ ~inv[i].preview /\ inv[i].outcome = "replied"

\* a clip not flagged, attached in a channel not marked NSFW
C16_PlainClip ==
    \E i \in DOMAIN inv :
        HasClip(inv[i]) /\ ~inv[i].nsfw /\ ~inv[i].channel_nsfw /\ inv[i].preview

QuotaOrKeyErrors ==
    {"ShortLimitReachedException", "DailyLimitReachedException",
     "InvalidOrWrongApiKeyException"}

\* C17: when the search fails with a short or daily limit or a rejected
\* key, the command message is deleted, the message of that category is
\* replied, and the invocation ends with no result rendered and no cache
\* write
C17_LookupFailure ==
    \A i \in DOMAIN inv :
        LET r == inv[i] IN
        r.exc \in QuotaOrKeyErrors =>
            /\ r.pc = "done"
            /\ r.deleted /\ HasEvent(r, "delete")
            /\ HasEvent(r, "reply_error")
            /\ r.outcome = (IF r.exc = "InvalidOrWrongApiKeyException"
                            THEN "rejected_api_key" ELSE "api_limit_exceeded")
            /\ r.sauce = None /\ ~r.preview
            /\ ~HasEvent(r, "reply_sauce") /\ ~HasEvent(r, "reply_not_found")
            /\ ~HasEvent(r, "cache_write")
            /\ SauceCache_fetch(cache, r.url[1]) = r.cache0

C17_Witness ==
    \E i \in DOMAIN inv :
        /\ inv[i].exc = "DailyLimitReachedException"
        /\ inv[i].outcome = "api_limit_exceeded" /\ inv[i].deleted

\* the number of times e occurs in a trace
Count(t, e) == Cardinality({k \in DOMAIN t : t[k] = e})

\* C18: an invocation, its re-run after the cooldown included, issues at
\* most one search to SauceNao and none after a search that failed
C18_NoRetry ==
    \A i \in DOMAIN inv :
        LET t == inv[i].trace IN
        /\ Count(t, "search") <= 1
        /\ \A k \in DOMAIN t :
              t[k] = "raise" => \A j \in k + 1..Len(t) : t[j] /= "search"

\* a re-run after the cooldown whose search failed
C18_Witness ==
    \E i \in DOMAIN inv :
        /\ inv[i].cooldown /\ HasEvent(inv[i], "reinvoke")
        /\ inv[i].exc /= "" /\ inv[i].pc = "done"
        /\ Count(inv[i].trace, "search") = 1

\* a string of exactly KeyLen alphanumeric characters
WellFormed(k) == k.alnum /\ k.length = KeyLen /\ ~k.newline

\* C14: a test call is issued for well-formed strings only and any other
\* string gets the format message; a failed test and an account that is not
\* enhanced get their messages; every rejection leaves the stored key as it
\* was; a registration stores the tested key; every key stored by the
\* command is well-formed, tested and enhanced
C14_RegistrationGuard ==
    /\ (reg.pc = "test" \/ reg.test /= None) => WellFormed(reg.api_key[1])
    /\ reg.pc = "done" =>
          /\ ~WellFormed(reg.api_key[1]) => reg.outcome = "bad_api_key"
          /\ reg.outcome = "bad_api_key" => reg.test = None
          /\ (reg.test /= None /\ ~reg.test[1].success) => reg.outcome = "api_offline"
          /\ (reg.test /= None /\ reg.test[1].success
                 /\ reg.test[1].account_type /= ACCOUNT_ENHANCED) =>
                reg.outcome = "api_free"
          /\ reg.outcome \in {"bad_api_key", "api_offline", "api_free"} =>
                servers = reg.stored0
          /\ reg.outcome = "registered_api_key" =>
                /\ servers = reg.api_key
                /\ reg.test[1].success
                /\ reg.test[1].account_type = ACCOUNT_ENHANCED
    /\ (servers /= None /\ servers[1].id = "new") => WellFormed(servers[1])

\* C15: beside the purge task, an invocation that has not finished
\* eventually does, whether or not SauceCache.purge_cache() raises
C15_PurgeYields == (inv[1].pc /= "done") ~> (inv[1].pc = "done")

\* invocation i searched and cached its result
Wrote(i) == inv[i].results /= None /\ HasEvent(inv[i], "cache_write")

\* invocation j was answered from the cache
Hit(j) == inv[j].cache0 /= None /\ inv[j].sauce /= None

AttachmentsOnly(r) ==
    r.pc /= "idle" /\ r.arg = None /\ _get_image_attachments(r.message) /= <<>>

\* C20: with qualifying attachments and no URL argument, the image that is
\* resolved is one of the invoking message's own attachments, whatever was
\* posted in the channel before the history is read
C20_OwnAttachment ==
    \A i \in DOMAIN inv :
        LET r    == inv[i]
            own  == _get_image_attachments(r.message)
        IN  (AttachmentsOnly(r) /\ r.url /= None) =>
                \E k \in DOMAIN own : r.url = _get_attachment_image(own[k])

\* a message of the page qualifies: image or video attachments, or a text
\* that is an image link
Qualifies(m) == _get_image_attachments(m) /= <<>> \/ IMAGE_URL_RE(m.content)

\* position of the newest qualifying message of a page, 0 when there is none
FirstQualifying(hist) ==
    IF \E k \in 1..Len(hist) : Qualifies(hist[k])
    THEN CHOOSE k \in 1..Len(hist) :
             Qualifies(hist[k]) /\ \A j \in 1..(k - 1) : ~Qualifies(hist[j])
    ELSE 0

\* the invocation resolves its image from the message it replies to
ViaReference(r) ==
    r.pc /= "idle" /\ ~r.image_in_command /\ r.reference.kind = "message"

\* the attachment the resolver settled on: the one picked at the prompt, the
\* only one of the replied-to message, or the only one of the newest
\* qualifying message of the history page
Chosen(r) ==
    IF r.attachment /= None THEN r.attachment
    ELSE IF ViaReference(r)
    THEN LET a == _get_image_attachments(r.reference.msg)
         IN  IF Len(a) = 1 THEN Some(a[1]) ELSE None
    ELSE IF FirstQualifying(r.hist) > 0
    THEN LET a == _get_image_attachments(r.hist[FirstQualifying(r.hist)])
         IN  IF Len(a) = 1 THEN Some(a[1]) ELSE None
    ELSE None

\* attachment.proxy_url + '?format=jpeg'
Thumbnail(attachment) == [attachment.proxy_url EXCEPT !.fmt = "?format=jpeg"]

\* C21: when the attachment the resolver settled on is a video, the URL that
\* goes on to the lookup is its proxy URL with the format parameter, on the
\* reply paths as on the history path
C21_VideoThumbnail ==
    \A i \in DOMAIN inv :
        LET r == inv[i] IN
        (/\ r.arg = None
         /\ r.url /= None
         /\ Chosen(r) /= None
         /\ endswith(Chosen(r)[1].url, VideoExts)) =>
            r.url = Some(Thumbnail(Chosen(r)[1]))

\* C21 on the history path alone
C21_HistoryThumbnail ==
    \A i \in DOMAIN inv :
        LET r == inv[i] IN
        (/\ r.arg = None
         /\ ~ViaReference(r)
         /\ r.url /= None
         /\ Chosen(r) /= None
         /\ endswith(Chosen(r)[1].url, VideoExts)) =>
            r.url = Some(Thumbnail(Chosen(r)[1]))

\* the invocation had no image of its own and no reply, and has read the
\* channel history
ScannedHistory(r) ==
    /\ r.arg = None /\ ~r.image_in_command /\ r.reference.kind = "none"
    /\ r.channel /= <<>>

\* C22: the scan looks at the newest HistoryLimit messages of the channel
\* and no others; the newest of them that qualifies gives the image: its
\* only attachment, the one picked at the prompt over its attachments, or
\* its text; when none qualifies the invocation ends with the no-image reply
C22_FirstMatch ==
    \A i \in DOMAIN inv :
        LET r    == inv[i]
            page == Take(r.channel, HistoryLimit)
            k    == FirstQualifying(page)
        IN  ScannedHistory(r) =>
              /\ r.hist = page
              /\ k = 0 => r.pc = "done" /\ r.outcome = "no_images" /\ r.url = None
              /\ k > 0 =>
                    LET a == _get_image_attachments(page[k]) IN
                    /\ Len(a) = 1 => r.url = _get_attachment_image(a[1])
                    /\ Len(a) > 1 =>
                          /\ r.caller = "history" /\ r.items = a
                          /\ r.attachment = None => r.url = None
                          /\ r.attachment /= None =>
                                /\ Contains(a, r.attachment[1])
                                /\ r.url = _get_attachment_image(r.attachment[1])
                    /\ Len(a) = 0 => r.url = page[k].content

\* the only qualifying message of the channel lies just beyond the page
C22_Witness ==
    \E i \in DOMAIN inv :
        /\ ScannedHistory(inv[i])
        /\ Len(inv[i].channel) > HistoryLimit
        /\ Qualifies(inv[i].channel[HistoryLimit + 1])
        /\ inv[i].outcome = "no_images"

\* a newer and an older message both qualify and the newer one is used
C22_NewerWins ==
    \E i \in DOMAIN inv :
        /\ ScannedHistory(inv[i])
        /\ \E j, k \in 1..Len(inv[i].hist) :
              j < k /\ Qualifies(inv[i].hist[j]) /\ Qualifies(inv[i].hist[k])
        /\ inv[i].outcome = "replied"

\* C23: under a member limit, with every user starting below it, no user
\* ever has more entries in the query log than the limit, however the
\* invocations interleave
C23_MemberCap ==
    member_limit > 0 =>
        \A u \in Users : SauceQueries_user_count(queries, u) <= member_limit

\* a user at the limit: one invocation still awaits its search while
\* another of the same user was turned away
C23_Witness ==
    \E i, j \in DOMAIN inv :
        /\ inv[i].pc = "search" /\ inv[j].outcome = "member_limited"
        /\ inv[i].author = inv[j].author
        /\ SauceQueries_user_count(queries, inv[i].author) = member_limit

====
